---------------------------- MODULE Spec2Model ----------------------------
(***************************************************************************)
(* Model of Preprocessing/Data_Preprocessing.ipynb: the data-cleaning      *)
(* cells of the MTA ridership notebook.                                    *)
(*                                                                         *)
(*   winsorize_outliers(df, limits)   (cell at lines 163-166)              *)
(*   the four date masks and slices   (cell at lines 176-184)              *)
(*   the four winsorize_outliers calls (cell at lines 193-196)             *)
(*   pd.concat(..., ignore_index=True) (cell at line 205)                  *)
(*                                                                         *)
(* A table (DataFrame) is a sequence of rows.  A row is a record           *)
(*   [orig |-> index label of the row in the table that was read,          *)
(*    Date |-> the timestamp, x |-> the cell of a float64 column].         *)
(* The position of a row in the sequence is its current index label;       *)
(* orig is a history field that survives ignore_index=True so that rows    *)
(* of the merged table can be traced back to the rows that were read.      *)
(*                                                                         *)
(* Fractions (the entries of limits) are numerators over LimDen.           *)
(* Timestamps are integers; the five boundary timestamps of the notebook   *)
(* are 1..5, 0 is a day before 2020-03-01.                                 *)
(***************************************************************************)
EXTENDS Integers, Sequences, FiniteSets

VARIABLES
    pc,         \* position in the run
    df,         \* the table: winsorize_outliers' argument / the table read
    limits,     \* <<lower, upper>>, numerators over LimDen
    err,        \* exception that ended the run, or "none"
    df_in,      \* history: df as it was before winsorize_outliers ran
    df_once,    \* history: df after the first winsorize_outliers call
    parts,      \* df_pre_lockdown, df_lockdown, df_recovery, df_post_lockdown
    calls,      \* how many of the calls of lines 193-196 have returned
    df_merged   \* the result of pd.concat

vars == <<pc, df, limits, err, df_in, df_once, parts, calls, df_merged>>

-----------------------------------------------------------------------------
(* Bounds of the model *)

\* rows of the table the notebook reads
MaxRows == 5

\* rows of the table handed to a single winsorize_outliers call
MaxLen == 4

\* largest present cell value of the numeric column
MaxVal == 2

-----------------------------------------------------------------------------
(* Values *)

\* a missing cell of a float64 column (numpy.nan); not an element of Vals
NaN == -1

\* denominator of the fractions: 5 is 0.05
LimDen == 100

Vals == 0 .. MaxVal

Cells == Vals \cup {NaN}

\* the default of the parameter limits, (0.05, 0.05)
DefaultLimits == <<5, 5>>

\* the fractions the model passes: negative, zero, the default, and
\* fractions large enough to clip a short column; 0.6 + 0.6 crosses
Fracs == {-5, 0, 5, 25, 40, 60}

\* the columns of the table in order, and their dtypes
Columns == <<"Date", "x">>

Dtypes == [Date |-> "datetime64[ns]", x |-> "float64"]

\* select_dtypes(include=['float64', 'int64'])
NumericDtypesAll == {"float64", "int64", "datetime64[ns]"}

NumericDtypes == {"float64", "int64"}

select_dtypes(include) == SelectSeq(Columns, LAMBDA c : Dtypes[c] \in include)

-----------------------------------------------------------------------------
(* scipy.stats.mstats.winsorize on one column, as called at line 165:      *)
(* inclusive=(True, True), nan_policy='propagate', axis=None.              *)

\* order of numpy's sort on floats: nan after every number
Less(u, v) == u # NaN /\ (v = NaN \/ u < v)

\* position j sorts before position i.  Ties are broken by position; the
\* cells of tied positions are equal, so the values written do not depend
\* on how ties are broken.
Before(a, j, i) == Less(a[j], a[i]) \/ (~Less(a[i], a[j]) /\ j < i)

\* a.argsort(): idx[r] is the position of the cell of rank r (1-based)
argsort(a) ==
    [r \in 1 .. Len(a) |->
        CHOOSE i \in 1 .. Len(a) :
            Cardinality({j \in 1 .. Len(a) : Before(a, j, i)}) = r - 1]

\* lowidx = int(low_limit * n)
LowIdxNone(n, lo) == 0

LowIdxRound(n, lo) == (2 * lo * n + LimDen) \div (2 * LimDen)

LowIdx(n, lo) == (lo * n) \div LimDen

\* upidx = n - int(n * up_limit)
UpIdxShort(n, up) == n - (n * up) \div LimDen - 1

UpIdx(n, up) == n - (n * up) \div LimDen

\* Python's idx[j] on a sequence of length n, as a 1-based position;
\* 0 stands for IndexError
PyIndex(j, n) ==
    IF 0 <= j /\ j < n THEN j + 1
    ELSE IF -n <= j /\ j < 0 THEN n + j + 1
    ELSE 0

\* the rank whose cell is copied over the low tail: a[idx[lowidx]]
LowSourceNext(n, lowidx) == PyIndex(lowidx + 1, n)

LowSource(n, lowidx) == PyIndex(lowidx, n)

\* the rank whose cell is copied over the high tail: a[idx[upidx - 1]]
UpSourceSame(n, upidx) == PyIndex(upidx, n)

UpSource(n, upidx) == PyIndex(upidx - 1, n)

\* _winsorize1D(a, low_limit, up_limit, True, True, ...)
winsorize1D(a, lo, up) ==
    LET n == Len(a)
        idx == argsort(a)
        lowidx == LowIdx(n, lo)
        lowsrc == LowSource(n, lowidx)
        lowFails == lo # 0 /\ lowsrc = 0
        a1 == IF lo # 0 /\ ~lowFails
              THEN LET tail == {idx[r] : r \in 1 .. lowidx}
                   IN  [i \in 1 .. n |->
                           IF i \in tail THEN a[idx[lowsrc]] ELSE a[i]]
              ELSE a
        upidx == UpIdx(n, up)
        upsrc == UpSource(n, upidx)
        upFails == upsrc = 0
        a2 == IF ~upFails
              THEN LET tail == {idx[r] : r \in (upidx + 1) .. n}
                   IN  [i \in 1 .. n |->
                           IF i \in tail THEN a1[idx[upsrc]] ELSE a1[i]]
              ELSE a1
    IN  IF lowFails \/ upFails
        THEN [a |-> a, err |-> "IndexError"]
        ELSE [a |-> a2, err |-> "none"]

\* winsorize(a, limits=limits): the check of the limits, then _winsorize1D
winsorize(a, lim) ==
    IF lim[1] > LimDen \/ lim[1] < 0 \/ lim[2] > LimDen \/ lim[2] < 0
    THEN [a |-> a, err |-> "ValueError"]
    ELSE winsorize1D(a, lim[1], lim[2])

-----------------------------------------------------------------------------
(* winsorize_outliers, lines 163-166 *)

Column(t, c) == [i \in 1 .. Len(t) |-> t[i][c]]

\* df[column] = values
SetColumn(t, c, values) == [i \in 1 .. Len(t) |-> [t[i] EXCEPT ![c] = values[i]]]

\* the loop over the selected columns; an exception leaves the loop with
\* the columns assigned so far
RECURSIVE WinsorizeColumns(_, _, _)
WinsorizeColumns(t, cols, lim) ==
    IF cols = <<>>
    THEN [table |-> t, err |-> "none"]
    ELSE LET w == winsorize(Column(t, Head(cols)), lim)
         IN  IF w.err # "none"
             THEN [table |-> t, err |-> w.err]
             ELSE WinsorizeColumns(SetColumn(t, Head(cols), w.a), Tail(cols), lim)

winsorize_outliers(t, lim) == WinsorizeColumns(t, select_dtypes(NumericDtypes), lim)

-----------------------------------------------------------------------------
(* One call of winsorize_outliers on an arbitrary table, and a second call *)
(* on its result.                                                          *)

RECURSIVE SeqsOf(_, _)
SeqsOf(S, n) ==
    IF n = 0 THEN {<<>>}
    ELSE LET shorter == SeqsOf(S, n - 1)
         IN  shorter \cup {Append(s, e) : s \in {q \in shorter : Len(q) = n - 1}, e \in S}

\* a table with consecutive timestamps and the given cells
TableOf(cells) == [i \in 1 .. Len(cells) |-> [orig |-> i, Date |-> i, x |-> cells[i]]]

InitW ==
    /\ pc = "start"
    /\ df \in {TableOf(cells) : cells \in SeqsOf(Cells, MaxLen)}
    /\ limits \in Fracs \X Fracs
    /\ err = "none"
    /\ df_in = df
    /\ df_once = <<>>
    /\ parts = <<>>
    /\ calls = 0
    /\ df_merged = <<>>

Call ==
    /\ pc = "start"
    /\ LET r == winsorize_outliers(df, limits)
       IN  /\ df' = r.table
           /\ err' = r.err
           /\ pc' = IF r.err = "none" THEN "once" ELSE "raised"
           /\ df_once' = r.table
    /\ UNCHANGED <<limits, df_in, parts, calls, df_merged>>

CallAgain ==
    /\ pc = "once"
    /\ LET r == winsorize_outliers(df, limits)
       IN  /\ df' = r.table
           /\ err' = r.err
           /\ pc' = IF r.err = "none" THEN "twice" ELSE "raised"
    /\ UNCHANGED <<limits, df_in, df_once, parts, calls, df_merged>>

NextW == Call \/ CallAgain

SpecW == InitW /\ [][NextW]_vars

-----------------------------------------------------------------------------
(* The notebook run: masks and slices (176-184), the four calls (193-196), *)
(* the concatenation (205).                                                *)

\* the boundary timestamps of lines 176-179
Date_2020_03_01 == 1

Date_2020_03_22 == 2

Date_2021_06_08 == 3

Date_2021_09_13 == 4

Date_2024_10_31 == 5

\* pre_lockdown, lockdown, recovery, post_lockdown as <<start, end>>
Windows ==
    << <<Date_2020_03_01, Date_2020_03_22>>,
       <<Date_2020_03_22, Date_2021_06_08>>,
       <<Date_2021_06_08, Date_2021_09_13>>,
       <<Date_2021_09_13, Date_2024_10_31>> >>

\* (df['Date'] >= start) & (df['Date'] < end), for one row
InMaskClosed(d, w) == d >= w[1] /\ d <= w[2]

InMask(d, w) == d >= w[1] /\ d < w[2]

\* df[mask]: the rows the mask keeps, in the order of df
Slice(t, w) == SelectSeq(t, LAMBDA r : InMask(r.Date, w))

\* pd.concat(frames, ignore_index=True)
RECURSIVE concatReversed(_)
concatReversed(frames) ==
    IF frames = <<>> THEN <<>> ELSE concatReversed(Tail(frames)) \o Head(frames)

RECURSIVE concat(_)
concat(frames) ==
    IF frames = <<>> THEN <<>> ELSE Head(frames) \o concat(Tail(frames))

\* timestamps of the rows read: before the first window, in one of the
\* four, or at the end of the last
Dates == (Date_2020_03_01 - 1) .. Date_2024_10_31

\* the numeric column of a table of n rows read by the run: readings that
\* rise or fall with the row number
Readings(n) ==
    { [i \in 1 .. n |-> (i - 1) % (MaxVal + 1)],
      [i \in 1 .. n |-> (n - i) % (MaxVal + 1)] }

\* the argument limits of the calls of lines 193-196: the default, and a
\* pair that clips a partition of three rows
RunLimits == {DefaultLimits, <<40, 40>>}

Init ==
    /\ pc = "loaded"
    /\ df \in { [i \in 1 .. Len(ds) |-> [orig |-> i, Date |-> ds[i], x |-> xs[i]]] :
                    <<ds, xs>> \in UNION { {d} \X Readings(Len(d)) : d \in SeqsOf(Dates, MaxRows) } }
    /\ limits \in RunLimits
    /\ err = "none"
    /\ df_in = df
    /\ df_once = <<>>
    /\ parts = <<>>
    /\ calls = 0
    /\ df_merged = <<>>

\* lines 176-184
Segment ==
    /\ pc = "loaded"
    /\ parts' = [k \in 1 .. Len(Windows) |-> Slice(df, Windows[k])]
    /\ pc' = "segmented"
    /\ UNCHANGED <<df, limits, err, df_in, df_once, calls, df_merged>>

\* one of the calls of lines 193-196, in order; an exception ends the run
WinsorizePartition ==
    /\ pc = "segmented"
    /\ calls < Len(parts)
    /\ LET r == winsorize_outliers(parts[calls + 1], limits)
       IN  IF r.err = "none"
           THEN /\ parts' = [parts EXCEPT ![calls + 1] = r.table]
                /\ calls' = calls + 1
                /\ UNCHANGED <<pc, err>>
           ELSE /\ parts' = [parts EXCEPT ![calls + 1] = r.table]
                /\ err' = r.err
                /\ pc' = "raised"
                /\ UNCHANGED calls
    /\ UNCHANGED <<df, limits, df_in, df_once, df_merged>>

\* line 205
Concat ==
    /\ pc = "segmented"
    /\ calls = Len(parts)
    /\ df_merged' = concat(parts)
    /\ pc' = "done"
    /\ UNCHANGED <<df, limits, err, df_in, df_once, parts, calls>>

Next == Segment \/ WinsorizePartition \/ Concat

Spec == Init /\ [][Next]_vars

-----------------------------------------------------------------------------
(* Vocabulary of the properties *)

\* both fractions in [0, 0.5)
ValidLimits(lim) ==
    /\ lim[1] >= 0 /\ 2 * lim[1] < LimDen
    /\ lim[2] >= 0 /\ 2 * lim[2] < LimDen

\* a fraction is negative or the two sum to 1 or more
RejectedLimits(lim) == lim[1] < 0 \/ lim[2] < 0 \/ lim[1] + lim[2] >= LimDen

\* the cells of a in ascending order, missing cells last
Sorted(a) == [r \in 1 .. Len(a) |-> a[argsort(a)[r]]]

Present(a) == SelectSeq(a, LAMBDA v : v # NaN)

\* LimDen times the p/LimDen-quantile of the present cells of a, by linear
\* interpolation between order statistics (a has a present cell)
Quantile100(a, p) ==
    LET s == Sorted(Present(a))
        h == (Len(s) - 1) * p
        k == h \div LimDen
        rem == h % LimDen
    IN  IF rem = 0 THEN s[k + 1] * LimDen
        ELSE s[k + 1] * LimDen + rem * (s[k + 2] - s[k + 1])

\* LimDen times the cells of a clipped to its interpolated quantiles
InterpolatedClip100(a, lim) ==
    LET qLo == Quantile100(a, lim[1])
        qHi == Quantile100(a, LimDen - lim[2])
    IN  [i \in 1 .. Len(a) |->
            IF a[i] = NaN THEN NaN
            ELSE IF a[i] * LimDen < qLo THEN qLo
            ELSE IF a[i] * LimDen > qHi THEN qHi
            ELSE a[i] * LimDen]

\* the order statistics scipy clips to, for a non-empty a and valid limits:
\* 0-based ranks int(lo*n) and n - 1 - int(up*n), missing cells ranked last
LowStat(a, lim) == Sorted(a)[(lim[1] * Len(a)) \div LimDen + 1]

HighStat(a, lim) == Sorted(a)[Len(a) - (lim[2] * Len(a)) \div LimDen]

\* the cells of a clipped by value to those two order statistics
OrderStatClip(a, lim) ==
    [i \in 1 .. Len(a) |->
        IF Less(a[i], LowStat(a, lim)) THEN LowStat(a, lim)
        ELSE IF Less(HighStat(a, lim), a[i]) THEN HighStat(a, lim)
        ELSE a[i]]

\* window k covers timestamp d
Covers(k, d) == Windows[k][1] <= d /\ d < Windows[k][2]

Covered(d) == \E k \in 1 .. Len(Windows) : Covers(k, d)

WindowOf(d) == CHOOSE k \in 1 .. Len(Windows) : Covers(k, d)

\* the rows of df that window k covers, before any clipping
PreClip(k) == SelectSeq(df, LAMBDA r : Covers(k, r.Date))

-----------------------------------------------------------------------------
(* C1 *)

-----------------------------------------------------------------------------
(* C2 *)

-----------------------------------------------------------------------------
(* C3 *)

\* C3: the merged table holds each row that was read and whose Date some
\* window covers exactly once, and no other row; its length is the sum of
\* the partition lengths and at most the length of the table read.
C3_Membership ==
    pc = "done" =>
        /\ \A i \in 1 .. Len(df) :
               Cardinality({p \in 1 .. Len(df_merged) : df_merged[p].orig = i})
                   = IF Covered(df[i].Date) THEN 1 ELSE 0
        /\ \A p \in 1 .. Len(df_merged) :
               /\ df_merged[p].orig \in 1 .. Len(df)
               /\ df_merged[p].Date = df[df_merged[p].orig].Date
        /\ Len(df_merged) = Len(parts[1]) + Len(parts[2]) + Len(parts[3]) + Len(parts[4])
        /\ Len(df_merged) <= Len(df)

\* a run that merged fewer rows than it read: rows before the first window
\* or at the end of the last were dropped
C3_Witness ==
    /\ pc = "done"
    /\ Len(df_merged) < Len(df)
    /\ \E i \in 1 .. Len(df) : df[i].Date = Date_2024_10_31

-----------------------------------------------------------------------------
(* C4 *)

\* C4: in the merged table the rows are ordered by window, in the order the
\* windows are listed, and within a window as in the table read.
C4_Order ==
    pc = "done" =>
        \A p, q \in 1 .. Len(df_merged) :
            p < q =>
                LET wp == WindowOf(df_merged[p].Date)
                    wq == WindowOf(df_merged[q].Date)
                IN  wp < wq \/ (wp = wq /\ df_merged[p].orig < df_merged[q].orig)

\* a merged table whose order is not the order of the table read, with two
\* rows of one window
C4_Witness ==
    /\ pc = "done"
    /\ \E p, q \in 1 .. Len(df_merged) :
           p < q /\ df_merged[p].orig > df_merged[q].orig
    /\ \E p, q \in 1 .. Len(df_merged) :
           p < q /\ df_merged[p].Date = df_merged[q].Date

-----------------------------------------------------------------------------
(* C5 *)

\* C5 as stated: a call with valid fractions leaves every missing cell
\* missing and every present cell present.
C5_MissingUntouched ==
    (pc = "once" /\ ValidLimits(limits)) =>
        \A i \in 1 .. Len(df) : (df_in[i].x = NaN) <=> (df[i].x = NaN)

-----------------------------------------------------------------------------
(* C6 *)

\* C6: a second call with the same fractions changes no cell of the result
\* of the first.
C6_Idempotent == pc = "twice" => df = df_once

\* a second call after a first one with valid fractions that changed a cell
C6_Witness ==
    /\ pc = "twice"
    /\ ValidLimits(limits)
    /\ df_once # df_in

-----------------------------------------------------------------------------
(* C7 *)

\* C7 as stated: a call whose fractions sum to 1 or more, or with a negative
\* fraction, raises and leaves the table as it was.
C7_CrossedRejected ==
    (pc # "start" /\ RejectedLimits(limits)) => (pc = "raised" /\ df = df_in)

-----------------------------------------------------------------------------
(* C8 *)

\* C8 as stated: no call of the run on a partition without rows raises.
C8_EmptyPartitionNoOp == ~(pc = "raised" /\ parts[calls + 1] = <<>>)

-----------------------------------------------------------------------------
(* C9 *)

\* C9: a call with both fractions 0 leaves every cell of the table as it
\* was.
C9_ZeroFractions == (pc # "start" /\ limits = <<0, 0>>) => df = df_in

\* a call with both fractions 0 returned on a column of differing cells
C9_Witness ==
    /\ pc = "once"
    /\ limits = <<0, 0>>
    /\ \E i, j \in 1 .. Len(df) : Less(df[i].x, df[j].x)

-----------------------------------------------------------------------------
(* C10 *)

\* C10: a call keeps the number and order of the rows and the columns, and
\* the Date of every row.
C10_Frame ==
    pc # "start" =>
        /\ Len(df) = Len(df_in)
        /\ \A i \in 1 .. Len(df) :
               /\ DOMAIN df[i] = DOMAIN df_in[i]
               /\ df[i].orig = df_in[i].orig
               /\ df[i].Date = df_in[i].Date

\* a call with valid fractions that clipped the numeric column
C10_Witness ==
    /\ pc = "once"
    /\ ValidLimits(limits)
    /\ \E i \in 1 .. Len(df) : df[i].x # df_in[i].x

=============================================================================
